---- MODULE Spec2Model ----
(***************************************************************************)
(* A model of the bonzai command tree (package Z): the Cmd node tree, the  *)
(* per-node alias cache, Seek/Resolve, Cmd.Run (completion and dispatch),  *)
(* the multicall entry point Run, and Exit/ExitError/TrapPanic.            *)
(*                                                                         *)
(* Go strings are sequences of one-character strings, so that splitting a  *)
(* line into fields and prefix tests are computed, not assumed.  A *Cmd is *)
(* a node number; Nil is the nil pointer.                                  *)
(***************************************************************************)
EXTENDS Integers, Sequences, FiniteSets, TLC

VARIABLES
    tree,        \* node number -> the fields of that Cmd
    ZAliases,    \* package variable Aliases: shorthand -> replacement args
    ZCommands,   \* package variable Commands: exe name -> multicall entry
    ExeName,     \* package variable ExeName
    Conf,        \* package variable Conf: "nil" or "set"
    DoNotExit,   \* package variable DoNotExit
    AllowPanic,  \* package variable AllowPanic
    COMP_LINE,   \* the environment variable COMP_LINE ("" when unset)
    last,        \* the last operation called: its receiver, its arguments
                 \* (of a Run: those the process was given), and os.Args
                 \* as a Run left them
    out,         \* what the last operation did, in order (see Ev)
    proc         \* "running", or how the process ended

vars == <<tree, ZAliases, ZCommands, ExeName, Conf, DoNotExit, AllowPanic,
          COMP_LINE, last, out, proc>>

\* ---------------------------------------------------------------- bounds

\* Longest argument vector (after the program name) handed to an operation.
MaxArgs == 3

\* Longest argument vector handed to comp.Standard.
MaxCompArgs == 1

\* Longest argument vector of a program whose nodes have several aliases.
MaxAliasArgs == 2

\* Most nodes of a tree that grows by Add.
MaxCmds == 3

\* ---------------------------------------------------------------- basics

Nil == 0

Cmds == {1, 2, 3, 4}

sR == <<"r">>
sQ == <<"q">>
sA == <<"a">>
sB == <<"b">>

sAB == <<"a", "b">>
sBA == <<"b", "a">>
sEmpty == <<>>
sX == <<"x">>
sY == <<"y">>

\* The words given to a program whose nodes have the aliases "x" and "y".
AliasTokens == {sA, sB, sX, sY}

AliasArgSeqs == UNION {[1..n -> AliasTokens] : n \in 0..MaxAliasArgs}

\* The words a process is given as arguments.
Tokens == {sA, sB}

\* The words under completion: whole names, beginnings of names, and the
\* empty word that ArgsFrom adds after a trailing space.
CompTokens == {sEmpty, sA, sAB, sB}

CompArgSeqs == UNION {[1..n -> CompTokens] : n \in 0..MaxCompArgs}

ArgSeqs == UNION {[1..n -> Tokens] : n \in 0..MaxArgs}

Range(s) == {s[i] : i \in DOMAIN s}

Min(S) == CHOOSE m \in S : \A n \in S : m <= n

\* s[from:] of Go, from counted from 0.
SliceFrom(s, from) == SubSeq(s, from + 1, Len(s))

IsSuffix(s, t) == Len(s) <= Len(t) /\ s = SliceFrom(t, Len(t) - Len(s))

\* strings.HasPrefix
HasPrefix(s, p) == Len(p) <= Len(s) /\ SubSeq(s, 1, Len(p)) = p

\* One entry of the log of an operation: what happened (ev), a detail
\* (what), the node concerned (cmd) and the arguments concerned (args); a
\* "Seek" entry also holds the receiver (from) and the arguments given
\* (input).
Ev(ev, what, cmd, args) ==
    [ev |-> ev, what |-> what, cmd |-> cmd, args |-> args,
     from |-> Nil, input |-> <<>>]

\* ------------------------------------------------------------ Cmd (cmd.go)

\* A Cmd literal: the fields this model keeps, Caller and the cache unset.
\* A slice that is <<>> is nil, as in a literal that leaves the field out,
\* unless EmptySlices names its field: then it is empty but not nil.
Cmd(name, aliases, commands, call, minargs, reqconf, completer) ==
    [Name |-> name, Aliases |-> aliases, Commands |-> commands,
     Params |-> <<>>, Hidden |-> <<>>, Summary |-> <<>>,
     Completer |-> completer, Caller |-> Nil, Call |-> call, MinArgs |-> minargs,
     ReqConf |-> reqconf, _aliases |-> <<>>, EmptySlices |-> {}]

\* x.Commands == nil, x.Params == nil
IsNilSlice(t, x, field) ==
    t[x][field] = <<>> /\ field \notin t[x].EmptySlices

\* A loop that caches the first alias of a child only.
PutAllFirstOnly(m, as, c) ==
    IF as = <<>> THEN m
    ELSE [a \in (DOMAIN m) \cup {as[1]} |-> IF a = as[1] THEN c ELSE m[a]]

\* An Add that puts the new node before the children there are.
AddFirst(t, x, name, aliases) ==
    LET c == Len(t) + 1
    IN [tree |-> Append([t EXCEPT ![x].Commands = <<c>> \o @,
                                  ![x].EmptySlices = @ \ {"Commands"}],
                        Cmd(name, aliases, <<>>, "nil", 0, FALSE, "nil")),
        cmd |-> c]

\* Add: a new Cmd of that name and those aliases, every other field zero,
\* appended to x.Commands; the new node is returned.
Add(t, x, name, aliases) ==
    LET c == Len(t) + 1
    IN [tree |-> Append([t EXCEPT ![x].Commands = Append(@, c),
                                  ![x].EmptySlices = @ \ {"Commands"}],
                        Cmd(name, aliases, <<>>, "nil", 0, FALSE, "nil")),
        cmd |-> c]

\* x._aliases[a] = c for every a of as.
PutAll(m, as, c) ==
    [a \in (DOMAIN m) \cup Range(as) |-> IF a \in Range(as) THEN c ELSE m[a]]

RECURSIVE cacheLoop(_, _, _, _)
cacheLoop(t, cmds, i, m) ==
    IF i > Len(cmds) THEN m
    ELSE cacheLoop(t, cmds, i + 1, PutAll(m, t[cmds[i]].Aliases, cmds[i]))

\* Only x's own table is rebuilt, from x's children in order; an alias that
\* two children declare ends up with the child assigned last.
cacheAliases(t, x) ==
    [t EXCEPT ![x]._aliases = cacheLoop(t, t[x].Commands, 1, <<>>)]

\* A Resolve that looks in the alias cache before the names.
ResolveAliasFirst(t, x, name) ==
    LET cmds == t[x].Commands
        byName == {i \in DOMAIN cmds : t[cmds[i]].Name = name}
    IN IF cmds = <<>> THEN Nil
       ELSE IF name \in DOMAIN t[x]._aliases THEN t[x]._aliases[name]
       ELSE IF byName # {} THEN cmds[Min(byName)]
       ELSE Nil

\* A Resolve that passes over the Hidden names.
ResolveSkipsHidden(t, x, name) ==
    LET cmds == t[x].Commands
        byName == {i \in DOMAIN cmds : t[cmds[i]].Name = name}
    IN IF cmds = <<>> \/ name \in Range(t[x].Hidden) THEN Nil
       ELSE IF byName # {} THEN cmds[Min(byName)]
       ELSE IF name \in DOMAIN t[x]._aliases THEN t[x]._aliases[name]
       ELSE Nil

\* Resolve: the first child of that name, else the cached alias, else nil.
Resolve(t, x, name) ==
    LET cmds == t[x].Commands
        byName == {i \in DOMAIN cmds : t[cmds[i]].Name = name}
    IN IF cmds = <<>> THEN Nil
       ELSE IF byName # {} THEN cmds[Min(byName)]
       ELSE IF name \in DOMAIN t[x]._aliases THEN t[x]._aliases[name]
       ELSE Nil

\* The loop of Seek from position n (counted from 0) at node cur.
RECURSIVE SeekLoop(_, _, _, _)
SeekLoop(t, cur, args, n) ==
    IF n >= Len(args) THEN [tree |-> t, cmd |-> cur, args |-> <<>>]
    ELSE LET next == Resolve(t, cur, args[n + 1])
         IN IF next = Nil
            THEN [tree |-> t, cmd |-> cur, args |-> SliceFrom(args, n)]
            ELSE SeekLoop([t EXCEPT ![next].Caller = cur], next, args, n + 1)

\* A Seek that consumes the token it fails on.
SeekDropsFailing(t, x, args) ==
    LET r == SeekLoop(t, x, args, 0)
    IN [r EXCEPT !.args = IF @ = <<>> THEN @ ELSE Tail(@)]

\* A Seek that also sets the Caller of every child of the receiver.
SeekMarksChildren(t, x, args) ==
    LET r == IF t[x].Commands = <<>> THEN [tree |-> t, cmd |-> x, args |-> args]
             ELSE SeekLoop(t, x, args, 0)
    IN [r EXCEPT !.tree = [n \in DOMAIN r.tree |->
                              IF n \in Range(t[x].Commands) /\ r.tree[n].Caller = Nil
                              THEN [r.tree[n] EXCEPT !.Caller = x]
                              ELSE r.tree[n]]]

\* Seek: the node reached, the arguments left, and the tree with the Caller
\* of every node on the way set.
Seek(t, x, args) ==
    IF t[x].Commands = <<>> THEN [tree |-> t, cmd |-> x, args |-> args]
    ELSE SeekLoop(t, x, args, 0)

EvSeek(x, input, r) ==
    [ev |-> "Seek", what |-> "", cmd |-> r.cmd, args |-> r.args,
     from |-> x, input |-> input]

\* CmdNames: the name of every child, the empty ones left out.
CmdNames(t, x) ==
    LET names == [i \in DOMAIN t[x].Commands |-> t[t[x].Commands[i]].Name]
    IN SelectSeq(names, LAMBDA n : n # <<>>)

\* A value of an interface type ([]any, bonzai.Command): a *Cmd, a string,
\* or anything else.
VCmd(x) == [kind |-> "cmd", cmd |-> x, str |-> <<>>]
VStr(s) == [kind |-> "str", cmd |-> Nil, str |-> s]
VOther == [kind |-> "other", cmd |-> Nil, str |-> <<>>]

\* ----------------------------------------------- usage (bonzai.go, cmd.go)

\* strings.Join
RECURSIVE Join(_, _)
Join(list, sep) ==
    IF list = <<>> THEN <<>>
    ELSE IF Len(list) = 1 THEN list[1]
    ELSE list[1] \o <<sep>> \o Join(Tail(list), sep)

\* UsageGroup: nothing for no arguments, the argument itself if it is the
\* only one, else the arguments joined by bars in parentheses, followed
\* by the notation of a repetition other than exactly one.
UsageGroup(args, min, max) ==
    IF args = <<>> THEN <<>>
    ELSE IF Len(args) = 1 THEN args[1]
    ELSE <<"(">> \o Join(args, "|") \o <<")">>
             \o (IF min = 1 /\ max = 1 THEN <<>> ELSE <<"*">>)

\* Names: the Aliases, then the Name.
Names(t, x) == Append(t[x].Aliases, t[x].Name)

UsageNames(t, x) == UsageGroup(Names(t, x), 1, 1)

\* redu.Longest: the length of the longest string of the list.
Longest(list) ==
    IF list = <<>> THEN 0
    ELSE CHOOSE n \in {Len(list[i]) : i \in DOMAIN list} :
             \A i \in DOMAIN list : Len(list[i]) <= n

\* The verb %-nv: the string, then spaces up to the width n.
PadRight(str, n) ==
    str \o [i \in 1..(IF n > Len(str) THEN n - Len(str) ELSE 0) |-> " "]

\* The lines of UsageCmdTitles from entry n on.
RECURSIVE TitleLines(_, _, _, _)
TitleLines(set, summaries, longest, n) ==
    IF n > Len(set) THEN <<>>
    ELSE (IF Len(summaries[n]) > 0
          THEN PadRight(set[n], longest) \o <<" ", "-", " ">> \o summaries[n] \o <<"\n">>
          ELSE PadRight(set[n], longest) \o <<"\n">>)
             \o TitleLines(set, summaries, longest, n + 1)

\* UsageCmdTitles: one line for every child of x in order, its names
\* joined by bars and justified to the longest, then its Summary if any.
UsageCmdTitles(t, x) ==
    LET cmds == t[x].Commands
        set == [i \in DOMAIN cmds |-> Join(Names(t, cmds[i]), "|")]
        summaries == [i \in DOMAIN cmds |-> t[cmds[i]].Summary]
    IN TitleLines(set, summaries, Longest(set), 1)

\* The text every error string of InferredUsage begins with.
ErrorMark == "{ERROR: "

\* InferredUsage of the value v (a *Cmd or some other bonzai.Command);
\* MinParm and MaxParm are left at zero.
InferredUsage(t, v) ==
    IF v.kind # "cmd" THEN <<ErrorMark, "not a bonzai.Command", "}">>
    ELSE LET x == v.cmd
         IN IF t[x].Call = "nil" /\ IsNilSlice(t, x, "Commands")
            THEN <<ErrorMark, "neither Call nor Commands defined", "}">>
            ELSE IF t[x].Call = "nil" /\ ~IsNilSlice(t, x, "Params")
            THEN <<ErrorMark, "Params without Call: ">>
                     \o Join(t[x].Params, ", ") \o <<"}">>
            ELSE LET params == UsageGroup(t[x].Params, 0, 0)
                     snames == [i \in DOMAIN t[x].Commands |->
                                   UsageNames(t, t[x].Commands[i])]
                     names == IF ~IsNilSlice(t, x, "Commands") /\ Len(snames) > 0
                              THEN UsageGroup(snames, 1, 1) ELSE <<>>
                 IN IF params # <<>> /\ names # <<>>
                    THEN <<"(">> \o params \o <<"|">> \o names \o <<")">>
                    ELSE IF params # <<>> THEN params
                    ELSE names

\* --------------------------------------------- exits and panics (bonzai.go)

\* The locals of a running operation: the tree and os.Args as written so
\* far, the log, how the process stands ("running", "panicking" while a
\* panic unwinds, or ended), and Run's variables cmd and args.
Ctx(t, a) ==
    [tree |-> t, osArgs |-> a, out |-> <<>>, proc |-> "running",
     cmd |-> Nil, args |-> <<>>]

Live(c) == c.proc = "running"

Emit(c, e) == [c EXCEPT !.out = Append(@, e)]

\* Exit: os.Exit(0) unless DoNotExit.
Exit(c) ==
    LET d == Emit(c, Ev("Exit", "", Nil, <<>>))
    IN IF DoNotExit THEN d ELSE [d EXCEPT !.proc = "exit0"]

\* ExitError: log the error, os.Exit(1) unless DoNotExit.
ExitError(c, what, cmd) ==
    LET d == Emit(c, Ev("ExitError", what, cmd, <<>>))
    IN IF DoNotExit THEN d ELSE [d EXCEPT !.proc = "exit1"]

\* A run-time panic inside Cmd.Run: nothing after it runs but the deferred
\* TrapPanic.
Panic(c, what) ==
    [Emit(c, Ev("panic", what, Nil, <<>>)) EXCEPT !.proc = "panicking"]

\* TrapPanic, deferred by Cmd.Run: unless AllowPanic, a panic is logged
\* and the process exits with 1, whatever DoNotExit says.
TrapPanic(c) ==
    IF c.proc # "panicking" THEN c
    ELSE IF AllowPanic THEN [c EXCEPT !.proc = "panic"]
    ELSE [Emit(c, Ev("recovered", "", Nil, <<>>)) EXCEPT !.proc = "exit1"]

\* ArgsFrom: strings.Fields, which splits on any white space, and then one
\* empty item more if the last byte of the line is a space.
IsSpace(ch) == ch \in {" ", "\t"}

RECURSIVE Fields(_, _, _)
Fields(line, i, word) ==
    IF i > Len(line) THEN (IF word = <<>> THEN <<>> ELSE <<word>>)
    ELSE IF IsSpace(line[i])
         THEN (IF word = <<>> THEN <<>> ELSE <<word>>) \o Fields(line, i + 1, <<>>)
         ELSE Fields(line, i + 1, Append(word, line[i]))

ArgsFrom(line) ==
    IF line = <<>> THEN <<>>
    ELSE IF line[Len(line)] = " " THEN Append(Fields(line, 1, <<>>), <<>>)
    ELSE Fields(line, 1, <<>>)

\* ------------------------------------------------ completion (standard.go)

\* What a node's own Completer returns is up to the application.
CompleterOutput == <<<<"*">>>>

\* A Standard that does not leave out the Hidden names.
StandardShowsHidden(t, x, args) ==
    IF t[x].Completer # "nil" THEN CompleterOutput
    ELSE IF Len(args) = 0 THEN <<t[x].Name>>
    ELSE SelectSeq(CmdNames(t, x) \o t[x].Params,
                   LAMBDA n : HasPrefix(n, args[1]))

\* comp.Standard
Standard(t, x, args) ==
    IF t[x].Completer # "nil" THEN CompleterOutput
    ELSE IF Len(args) = 0 THEN <<t[x].Name>>
    ELSE LET list == CmdNames(t, x) \o t[x].Params
             visible == SelectSeq(list, LAMBDA n : n \notin Range(t[x].Hidden))
         IN SelectSeq(visible, LAMBDA n : HasPrefix(n, args[1]))

\* maps.KeysWithPrefix: the keys of the map that begin with the prefix.
RECURSIVE SetToSeq(_)
SetToSeq(S) ==
    IF S = {} THEN <<>>
    ELSE LET e == CHOOSE e \in S : TRUE IN <<e>> \o SetToSeq(S \ {e})

KeysWithPrefix(m, prefix) ==
    SetToSeq({k \in DOMAIN m : HasPrefix(k, prefix)})

\* --------------------------------------------------------- Cmd.Run (cmd.go)

\* x.cacheAliases() at the start of Run.
RunCache(c, x) == [c EXCEPT !.tree = cacheAliases(@, x)]

\* An expansion that leaves out the arguments after the shorthand.
RunAliasesDropsRest(c) ==
    LET a == c.osArgs
    IN IF Len(a) > 1 /\ a[2] \in DOMAIN ZAliases
       THEN [c EXCEPT !.osArgs = <<a[1]>> \o ZAliases[a[2]]]
       ELSE c

\* The package Aliases: os.Args[1], if it is a shorthand, is replaced by
\* its replacement, once.
RunAliases(c) ==
    LET a == c.osArgs
    IN IF Len(a) > 1 /\ a[2] \in DOMAIN ZAliases
       THEN [c EXCEPT !.osArgs = <<a[1]>> \o ZAliases[a[2]] \o SliceFrom(a, 2)]
       ELSE c

\* x.Seek(args) inside Run: the result goes to Run's cmd and args.
RunSeek(c, x, input) ==
    LET r == Seek(c.tree, x, input)
    IN [Emit(c, EvSeek(x, input, r)) EXCEPT
           !.tree = r.tree, !.cmd = r.cmd, !.args = r.args]

Println(c, list) == Emit(c, Ev("Println", "", Nil, list))

\* The branch for a node without Completer: the standard list, or the
\* replacement of the one shorthand left; each followed by Exit.
RunCompleteStandard(c, lineargs) ==
    LET keys == IF Len(lineargs) = 2
                THEN KeysWithPrefix(ZAliases, lineargs[2]) ELSE <<>>
        list == keys \o Standard(c.tree, c.cmd, c.args)
        c1 == IF Len(list) = 1 /\ Len(lineargs) = 2 /\ list[1] \in DOMAIN ZAliases
              THEN Exit(Println(c, ZAliases[list[1]]))
              ELSE c
    IN IF Live(c1) THEN Exit(Println(c1, list)) ELSE c1

\* The completion context of Run: taken when COMP_LINE is not empty.  Every
\* Exit that returns lets the statements after it run.
RunComplete(c, x) ==
    IF ~Live(c) \/ COMP_LINE = <<>> THEN c
    ELSE LET lineargs == ArgsFrom(COMP_LINE)
         IN IF Len(lineargs) = 0
            THEN Panic(c, "slice bounds out of range")
            ELSE LET c1 == RunSeek(c, x, Tail(lineargs))
                     c2 == IF c1.tree[c1.cmd].Completer = "nil"
                           THEN RunCompleteStandard(c1, lineargs)
                           ELSE c1
                 IN IF ~Live(c2) THEN c2
                    ELSE IF c2.tree[c2.cmd].Completer = "nil"
                    THEN Panic(c2, "nil Completer called")
                    ELSE Exit(Println(c2, CompleterOutput))

\* Default to the first Command if the node found has no Call.
RunDefault(c, x) ==
    IF ~Live(c) THEN c
    ELSE LET cmd == c.cmd
             t == c.tree
         IN IF t[cmd].Call # "nil" THEN c
            ELSE IF Len(t[cmd].Commands) > 0
            THEN LET fcmd == t[cmd].Commands[1]
                     c1 == IF t[fcmd].Call = "nil"
                           THEN ExitError(c, "default commands require Call function", Nil)
                           ELSE c
                 IN IF ~Live(c1) THEN c1
                    ELSE [c1 EXCEPT !.tree[fcmd].Caller = cmd, !.cmd = fcmd]
            ELSE ExitError(c, "has not yet been implemented", x)

\* len(args) < cmd.MinArgs
RunMinArgs(c) ==
    IF ~Live(c) THEN c
    ELSE IF Len(c.args) < c.tree[c.cmd].MinArgs
    THEN ExitError(c, "usage", c.cmd)
    ELSE c

\* x.ReqConf && Conf == nil: the flag read is the receiver's.
RunReqConf(c, x) ==
    IF ~Live(c) THEN c
    ELSE IF c.tree[x].ReqConf /\ Conf = "nil"
    THEN ExitError(c, "requires a configurer", c.cmd)
    ELSE c

\* Delegate: Caller defaults to the receiver, then cmd.Call(cmd, args...);
\* calling a nil Call panics, and an action may panic itself.
RunDelegate(c, x) ==
    IF ~Live(c) THEN c
    ELSE LET cmd == c.cmd
             c1 == IF c.tree[cmd].Caller = Nil
                   THEN [c EXCEPT !.tree[cmd].Caller = x] ELSE c
             call == c1.tree[cmd].Call
         IN IF call = "nil" THEN Panic(c1, "nil Call called")
            ELSE LET c2 == Emit(c1, Ev("Call", call, cmd, c1.args))
                     c3 == IF call = "err" THEN ExitError(c2, "action error", cmd)
                           ELSE IF call = "panic" THEN Panic(c2, "action panicked")
                           ELSE c2
                 IN IF Live(c3) THEN Exit(c3) ELSE c3

\* The dispatch half of Run, from the Seek on.
RunDispatch(c, x) ==
    IF ~Live(c) THEN c
    ELSE RunDelegate(
             RunReqConf(
                 RunMinArgs(
                     RunDefault(RunSeek(c, x, SliceFrom(c.osArgs, 1)), x)), x), x)

\* Cmd.Run on x, with os.Args and the tree as in c.
CmdRunBody(c, x) ==
    TrapPanic(RunDispatch(RunComplete(RunAliases(RunCache(c, x)), x), x))

\* ------------------------------------------------- multicall Run (bonzai.go)

\* The loop over v[1:]: each string is appended; a value that is no string
\* is an error and, if ExitError returns, leaves the empty string.
RECURSIVE RunPrepend(_, _, _, _)
RunPrepend(c, v, i, args) ==
    IF ~Live(c) \/ i > Len(v) THEN [c |-> c, args |-> args]
    ELSE IF v[i].kind = "str"
         THEN RunPrepend(c, v, i + 1, Append(args, v[i].str))
         ELSE RunPrepend(ExitError(c, "only string arguments allowed", Nil),
                         v, i + 1, Append(args, <<>>))

\* Run, when Commands has the entry v for ExeName.  A panic here is not
\* under any TrapPanic.
RunEntry(c, v) ==
    LET c1 == IF Len(v) < 1 THEN ExitError(c, "multicall command missing", Nil)
              ELSE c
    IN IF ~Live(c1) THEN c1
       ELSE IF Len(v) < 1 THEN [Panic(c1, "index out of range") EXCEPT !.proc = "panic"]
       ELSE LET c2 == IF v[1].kind # "cmd"
                      THEN ExitError(c1, "first value must be *Cmd", Nil)
                      ELSE c1
            IN IF ~Live(c2) THEN c2
               ELSE IF v[1].kind # "cmd"
               THEN [Panic(c2, "nil pointer dereference") EXCEPT !.proc = "panic"]
               ELSE LET cmd == v[1].cmd
                        p == IF Len(v) > 1
                             THEN RunPrepend(c2, v, 2, <<c2.tree[cmd].Name>>)
                             ELSE [c |-> c2, args |-> <<c2.tree[cmd].Name>>]
                        args == IF Len(v) > 1
                                THEN p.args \o SliceFrom(c2.osArgs, 1)
                                ELSE p.args
                        c3 == IF Live(p.c) THEN CmdRunBody([p.c EXCEPT !.osArgs = args], cmd)
                              ELSE p.c
                    IN IF Live(c3) THEN Exit(c3) ELSE c3

\* Run: the entry of ExeName in Commands decides the command; whatever
\* returns from that branch reaches the last statement.
RunBody(c) ==
    LET c1 == IF ExeName \in DOMAIN ZCommands
              THEN RunEntry(c, ZCommands[ExeName])
              ELSE c
    IN IF Live(c1) THEN ExitError(c1, "unmapped multicall command", Nil) ELSE c1

\* ------------------------------------------------------------------ trees

\* The children of nodes 1..4: a branch with a sub-branch, a chain, and a
\* flat tree.  Node 1 is the root.
ShapeA == <<<<2, 3>>, <<4>>, <<>>, <<>>>>
ShapeChain == <<<<2>>, <<3>>, <<4>>, <<>>>>
ShapeFlat == <<<<2, 3, 4>>, <<>>, <<>>, <<>>>>

Shapes == {ShapeA, ShapeChain, ShapeFlat}

\* Nodes 2 and 4 have the same name: siblings in the flat tree only.
NameOf == <<sR, sA, sB, sA>>

\* The alias a node may have: the word that is not its name.  It is the
\* name of a sibling where a node named "a" and one named "b" are siblings.
AliasOf == <<<<>>, <<sB>>, <<sA>>, <<sB>>>>

Root == 1

MkTree(shape, al, call, minargs, reqconf, completer) ==
    [c \in Cmds |-> Cmd(NameOf[c], al[c], shape[c], call[c], minargs[c],
                        reqconf[c], completer[c])]

All(v) == [c \in Cmds |-> v]

NoAliases == All(<<>>)

\* Trees for resolution: every shape, each node but the root with or
\* without its alias.
SeekTrees ==
    {MkTree(sh, [c \in Cmds |-> IF c \in aliased THEN AliasOf[c] ELSE <<>>],
            All("ok"), All(0), All(FALSE), All("nil")) :
        sh \in Shapes, aliased \in SUBSET {2, 3, 4}}

\* Trees for dispatch: any set of nodes has a Call, which succeeds or
\* fails; every node needs m arguments.
CallTrees ==
    {MkTree(ShapeA, NoAliases,
            [c \in Cmds |-> IF c \in callers THEN res ELSE "nil"],
            All(m), All(FALSE), All("nil")) :
        callers \in SUBSET Cmds, res \in {"ok", "err"}, m \in {0, 2}}

\* Trees where one node requires configuration.
ReqConfTrees ==
    {MkTree(ShapeA, NoAliases, All("ok"), All(0),
            [c \in Cmds |-> c = rc], All("nil")) : rc \in {1, 2, 4}}

\* Trees for completion: node 4 has its alias; the root, node 2 or no
\* node has a Completer.
CompTrees ==
    {MkTree(ShapeA, <<<<>>, <<>>, <<>>, AliasOf[4]>>, All("ok"), All(0), All(FALSE),
            [c \in Cmds |-> IF c = comp THEN "set" ELSE "nil"]) :
        comp \in {Nil, 1, 2}}

\* Command lines under completion: "r", "r ", "r a", "r a ", "r b",
\* "r a a", a line ending in a tab, and a line of one tab.
CompLines ==
    {<<"r">>, <<"r", " ">>, <<"r", " ", "a">>, <<"r", " ", "a", " ">>,
     <<"r", " ", "b">>, <<"r", " ", "a", " ", "a">>, <<"r", " ", "a", "\t">>,
     <<"\t">>}

\* The package Aliases: none, or b for "a a"; b for "b a", a replacement
\* that begins with its own shorthand; a for nothing.
NoShorthand == <<>>
Shorthand == (sB :> <<sA, sA>>)
ShorthandSelf == (sB :> <<sB, sA>>)
ShorthandEmpty == (sA :> <<>>)

\* q for "a a": a shorthand that is no name and no beginning of a name.
ShorthandQ == (sQ :> <<sA, sA>>)

\* Command lines under completion of a program with the shorthand q:
\* "r q", "r q a" and "r ".
ShorthandLines ==
    {<<"r", " ", "q">>, <<"r", " ", "q", " ", "a">>, <<"r", " ">>}

\* The package Commands: the entry of "r" is the root alone, the root with
\* one or two strings, empty, a string first, or the root with a value
\* that is no string.
Multicalls ==
    {<<>>,
     (sR :> <<VCmd(Root)>>),
     (sR :> <<VCmd(Root), VStr(sA)>>),
     (sR :> <<VCmd(Root), VStr(sA), VStr(sB)>>),
     (sR :> <<>>),
     (sR :> <<VStr(sA)>>),
     (sR :> <<VCmd(Root), VOther>>)}

\* Trees with several aliases: the child "a" of the root has "x" and "y" in
\* either order, or the name of its sibling; the sibling "b" has none, or
\* "x" too; the grandchild has "y".
AliasTrees ==
    {MkTree(ShapeA, <<<<>>, al2, al3, <<sY>>>>,
            All("ok"), All(0), All(FALSE), All("nil")) :
        al2 \in {<<sX, sY>>, <<sY, sX>>, <<sB>>},
        al3 \in {<<>>, <<sX>>}}

\* Trees for usage: any set of nodes has a Call; one node has Params, or a
\* Params slice that is empty but not nil, or none has; the root hides
\* nothing or its child "a"; the child "b" has a Summary or none.
UsageTrees ==
    {[c \in Cmds |->
        [MkTree(ShapeA, <<<<>>, <<sB>>, <<>>, <<>>>>,
                [d \in Cmds |-> IF d \in callers THEN "ok" ELSE "nil"],
                All(0), All(FALSE), All("nil"))[c]
           EXCEPT !.Params = IF c = p /\ pk = "some" THEN <<sA, sB>> ELSE <<>>,
                  !.EmptySlices =
                      IF c = p /\ pk = "empty" THEN {"Params"} ELSE {},
                  !.Hidden = IF c = Root THEN hidden ELSE <<>>,
                  !.Summary = IF c = 3 THEN summary ELSE <<>>]] :
        callers \in SUBSET Cmds, p \in Cmds, pk \in {"nil", "empty", "some"},
        hidden \in {<<>>, <<sA>>}, summary \in {<<>>, <<"s">>}}

\* A tree that grows by Add starts as a root alone, with or without Call.
AddTrees == {<<Cmd(sR, <<>>, <<>>, call, 0, FALSE, "nil")>> : call \in {"ok", "nil"}}

\* What Add is given: a name, and no alias or one.
AddNames == {sA, sB}
AddAliases == {<<>>, <<sA>>}

\* The arguments given to a program that builds its tree by Add.
AddArgs == {<<>>, <<sA>>, <<sB, sA>>}

\* Trees for standard completion: the root's children are named "a", "ab"
\* and "b" or "" (no name); the root has no Params or "ba" and "a"; hides
\* nothing, a child, or a child and a param; has a Completer or not.
CompStdTrees ==
    {[MkTree(ShapeFlat, NoAliases, All("ok"), All(0), All(FALSE),
             [c \in Cmds |-> IF c = comp THEN "set" ELSE "nil"])
         EXCEPT ![3].Name = sAB, ![4].Name = n4,
                ![Root].Params = params, ![Root].Hidden = hidden] :
        n4 \in {sB, sEmpty},
        params \in {<<>>, <<sBA, sA>>},
        hidden \in {<<>>, <<sA>>, <<sAB>>, <<sB, sBA>>},
        comp \in {Nil, Root}}

PlainTree == MkTree(ShapeA, NoAliases, All("ok"), All(0), All(FALSE), All("nil"))

Config(t, za, zc, exe, conf, line, ap) ==
    [tree |-> t, ZAliases |-> za, ZCommands |-> zc, ExeName |-> exe,
     Conf |-> conf, COMP_LINE |-> line, AllowPanic |-> ap]

\* What a program sets up before its first operation: programs that
\* resolve, programs that dispatch, programs run under completion, and
\* multicall programs.
SeekConfigs ==
    {Config(t, NoShorthand, <<>>, sR, "nil", <<>>, FALSE) : t \in SeekTrees}

DispatchConfigs ==
    {Config(t, NoShorthand, <<>>, sR, "nil", <<>>, FALSE) : t \in CallTrees}
    \cup {Config(t, NoShorthand, <<>>, sR, conf, <<>>, FALSE) :
        t \in ReqConfTrees, conf \in {"nil", "set"}}
    \cup {Config(MkTree(ShapeA, NoAliases, All("nil"), All(0), All(FALSE), All("nil")),
                 NoShorthand, <<>>, sR, "nil", <<>>, TRUE)}
    \cup {Config(PlainTree, za, <<>>, sR, "nil", <<>>, FALSE) :
        za \in {Shorthand, ShorthandSelf, ShorthandEmpty}}
    \cup {Config(MkTree(ShapeA, NoAliases, All("panic"), All(0), All(FALSE), All("nil")),
                 NoShorthand, <<>>, sR, "nil", <<>>, ap) : ap \in BOOLEAN}

CompConfigs ==
    {Config(t, za, <<>>, sR, "nil", line, FALSE) :
        t \in CompTrees, za \in {NoShorthand, Shorthand}, line \in CompLines}
    \cup {Config(t, NoShorthand, <<>>, sR, "nil", <<"r", " ", "a">>, TRUE) :
        t \in CompTrees}
    \cup {Config(t, ShorthandQ, <<>>, sR, "nil", line, FALSE) :
        t \in CompTrees, line \in ShorthandLines}

MultiConfigs ==
    {Config(PlainTree, NoShorthand, zc, sR, "nil", <<>>, FALSE) :
        zc \in Multicalls}
    \cup {Config(PlainTree, NoShorthand, (sR :> <<VCmd(Root)>>), sQ, "nil", <<>>, FALSE)}

AliasConfigs ==
    {Config(t, NoShorthand, <<>>, sR, "nil", <<>>, FALSE) : t \in AliasTrees}

UsageConfigs ==
    {Config(t, NoShorthand, <<>>, sR, "nil", <<>>, FALSE) : t \in UsageTrees}

AddConfigs ==
    {Config(t, NoShorthand, <<>>, sR, "nil", <<>>, FALSE) : t \in AddTrees}

CompStdConfigs ==
    {Config(t, NoShorthand, <<>>, sR, "nil", line, FALSE) :
        t \in CompStdTrees, line \in {<<>>, <<"r", " ">>}}

\* ---------------------------------------------------------------- actions

InitFrom(configs) ==
    \E cfg \in configs :
        /\ tree = cfg.tree
        /\ ZAliases = cfg.ZAliases
        /\ ZCommands = cfg.ZCommands
        /\ ExeName = cfg.ExeName
        /\ Conf = cfg.Conf
        /\ COMP_LINE = cfg.COMP_LINE
        /\ AllowPanic = cfg.AllowPanic
        /\ DoNotExit = FALSE
        /\ last = [op |-> "", x |-> Nil, args |-> <<>>, osArgs |-> <<>>]
        /\ out = <<>>
        /\ proc = "running"

Settings == <<ZAliases, ZCommands, ExeName, Conf, AllowPanic, COMP_LINE>>

\* ExitOff sets DoNotExit.
ExitOff ==
    /\ proc = "running"
    /\ DoNotExit' = TRUE
    /\ UNCHANGED <<tree, Settings, last, out, proc>>

\* ExitOn clears DoNotExit.
ExitOn ==
    /\ proc = "running"
    /\ DoNotExit' = FALSE
    /\ UNCHANGED <<tree, Settings, last, out, proc>>

\* x.Seek(args), called by the program itself.
CmdSeek(x, args) ==
    /\ proc = "running"
    /\ \E r \in {Seek(tree, x, args)} :
          /\ tree' = r.tree
          /\ out' = <<EvSeek(x, args, r)>>
    /\ last' = [op |-> "Seek", x |-> x, args |-> args, osArgs |-> <<>>]
    /\ UNCHANGED <<Settings, DoNotExit, proc>>

\* x.Run(), the process having been given the arguments args.
CmdRun(x, args) ==
    /\ proc = "running"
    /\ \E c \in {CmdRunBody(Ctx(tree, <<ExeName>> \o args), x)} :
          /\ tree' = c.tree
          /\ out' = c.out
          /\ proc' = c.proc
          /\ last' = [op |-> "Cmd.Run", x |-> x, args |-> args, osArgs |-> c.osArgs]
    /\ UNCHANGED <<Settings, DoNotExit>>

\* Run(), the process having been given the arguments args.
Run(args) ==
    /\ proc = "running"
    /\ \E c \in {RunBody(Ctx(tree, <<ExeName>> \o args))} :
          /\ tree' = c.tree
          /\ out' = c.out
          /\ proc' = c.proc
          /\ last' = [op |-> "Run", x |-> Nil, args |-> args, osArgs |-> c.osArgs]
    /\ UNCHANGED <<Settings, DoNotExit>>

\* comp.Standard(x, args...), called by the program itself.
CompStandard(x, args) ==
    /\ proc = "running"
    /\ out' = <<[Ev("Standard", "", x, Standard(tree, x, args))
                    EXCEPT !.input = args]>>
    /\ last' = [op |-> "Standard", x |-> x, args |-> args, osArgs |-> <<>>]
    /\ UNCHANGED <<tree, Settings, DoNotExit, proc>>

\* InferredUsage(v), called by the program itself: it writes nothing.
InferUsage(v) ==
    /\ proc = "running"
    /\ out' = <<[Ev("InferredUsage", "", v.cmd, InferredUsage(tree, v))
                    EXCEPT !.what = v.kind]>>
    /\ last' = [op |-> "InferredUsage", x |-> v.cmd, args |-> <<>>, osArgs |-> <<>>]
    /\ UNCHANGED <<tree, Settings, DoNotExit, proc>>

\* x.UsageCmdTitles(), called by the program itself: it writes nothing.
CallUsageCmdTitles(x) ==
    /\ proc = "running"
    /\ out' = <<Ev("UsageCmdTitles", "", x, UsageCmdTitles(tree, x))>>
    /\ last' = [op |-> "UsageCmdTitles", x |-> x, args |-> <<>>, osArgs |-> <<>>]
    /\ UNCHANGED <<tree, Settings, DoNotExit, proc>>

\* x.Add(name, aliases...), called by the program itself.
CmdAdd(x, name, aliases) ==
    /\ proc = "running"
    /\ Len(tree) < MaxCmds
    /\ \E r \in {Add(tree, x, name, aliases)} :
          /\ tree' = r.tree
          /\ out' = <<[Ev("Add", "", r.cmd, aliases)
                          EXCEPT !.from = x, !.input = <<name>>]>>
    /\ last' = [op |-> "Add", x |-> x, args |-> <<name>> \o aliases, osArgs |-> <<>>]
    /\ UNCHANGED <<Settings, DoNotExit, proc>>

\* ArgsFrom(line), called by the program itself.
CallArgsFrom(line) ==
    /\ proc = "running"
    /\ out' = <<[Ev("ArgsFrom", "", Nil, ArgsFrom(line)) EXCEPT !.input = <<line>>]>>
    /\ last' = [op |-> "ArgsFrom", x |-> Nil, args |-> <<line>>, osArgs |-> <<>>]
    /\ UNCHANGED <<tree, Settings, DoNotExit, proc>>

\* A program whose main calls Cmd.Run on its root.
Next ==
    \/ ExitOff
    \/ ExitOn
    \/ \E args \in ArgSeqs : CmdSeek(Root, args)
    \/ \E args \in ArgSeqs : CmdRun(Root, args)

\* A multicall program: its main calls Run.
NextMulti ==
    \/ ExitOff
    \/ ExitOn
    \/ \E args \in ArgSeqs : CmdSeek(Root, args)
    \/ \E args \in ArgSeqs : CmdRun(Root, args)
    \/ \E args \in ArgSeqs : Run(args)

\* A program that completes: it calls comp.Standard and Seek with the
\* words of a line, or Cmd.Run under COMP_LINE.
NextComp ==
    \/ \E x \in {Root, 2}, args \in CompArgSeqs : CompStandard(x, args)
    \/ \E args \in CompArgSeqs : CmdSeek(Root, args)
    \/ CmdRun(Root, <<>>)
    \/ \E line \in CompLines \cup {<<>>} : CallArgsFrom(line)

\* A program whose arguments may be the aliases "x" and "y".
NextAlias ==
    \/ ExitOff
    \/ ExitOn
    \/ \E args \in AliasArgSeqs : CmdSeek(Root, args)
    \/ \E args \in AliasArgSeqs : CmdRun(Root, args)

\* A program that asks for the usage of its nodes.
NextUsage ==
    \/ \E v \in {VCmd(x) : x \in Cmds} \cup {VOther} : InferUsage(v)
    \/ \E x \in Cmds : CallUsageCmdTitles(x)

\* A program that builds its tree by Add, and seeks and runs in between.
NextAdd ==
    \/ ExitOff
    \/ \E x \in DOMAIN tree, name \in AddNames, aliases \in AddAliases :
           CmdAdd(x, name, aliases)
    \/ \E args \in AddArgs : CmdSeek(Root, args)
    \/ \E args \in AddArgs : CmdRun(Root, args)

\* Programs that dispatch.
Init == InitFrom(DispatchConfigs)
Spec == Init /\ [][Next]_vars

\* Programs that resolve.
InitSeek == InitFrom(SeekConfigs)
SpecSeek == InitSeek /\ [][Next]_vars

\* Programs run under completion.
InitComp == InitFrom(CompConfigs)
SpecComp == InitComp /\ [][Next]_vars

\* Programs that use standard completion.
InitCompStd == InitFrom(CompStdConfigs)
SpecCompStd == InitCompStd /\ [][NextComp]_vars

\* Programs whose nodes have several aliases.
InitAlias == InitFrom(AliasConfigs)
SpecAlias == InitAlias /\ [][NextAlias]_vars

\* Programs that ask for usage.
InitUsage == InitFrom(UsageConfigs)
SpecUsage == InitUsage /\ [][NextUsage]_vars

\* Programs that build their tree by Add.
InitAdd == InitFrom(AddConfigs)
SpecAdd == InitAdd /\ [][NextAdd]_vars

\* Multicall programs.
InitMulti == InitFrom(MultiConfigs)
SpecMulti == InitMulti /\ [][NextMulti]_vars

\* ----------------------------------------------------------------- claims

Evs(ev) == {i \in DOMAIN out : out[i].ev = ev}

Errs(what) == {i \in Evs("ExitError") : out[i].what = what}

\* The last operation was a Cmd.Run outside of completion.
Dispatched == last.op = "Cmd.Run" /\ COMP_LINE = <<>>

\* The node and arguments the dispatch of the last Cmd.Run resolved.
Resolved == out[Min(Evs("Seek"))]

\* tok is the name or a declared alias of c.
Matches(t, c, tok) == tok = t[c].Name \/ tok \in Range(t[c].Aliases)

MatchingChildren(t, x, tok) ==
    {c \in Range(t[x].Commands) : Matches(t, c, tok)}

\* No token is the name or alias of two children of one node.
UniqueSiblings(t) ==
    \A x \in Cmds, tok \in Tokens : Cardinality(MatchingChildren(t, x, tok)) <= 1

\* The node that the declared names and aliases lead to from x along the
\* tokens from position i on; Nil if some token matches no child.
RECURSIVE Follow(_, _, _, _)
Follow(t, x, toks, i) ==
    IF i > Len(toks) THEN x
    ELSE IF MatchingChildren(t, x, toks[i]) = {} THEN Nil
    ELSE Follow(t, CHOOSE c \in MatchingChildren(t, x, toks[i]) : TRUE, toks, i + 1)

\* The node that Resolve leads to from x along the tokens from position i
\* on; Nil if Resolve finds no child for some token.
RECURSIVE Walk(_, _, _, _)
Walk(t, x, toks, i) ==
    IF i > Len(toks) THEN x
    ELSE LET next == Resolve(t, x, toks[i])
         IN IF next = Nil THEN Nil ELSE Walk(t, next, toks, i + 1)

\* C1: in a tree whose sibling names and aliases are unique, for a token
\* sequence in which each token is the name or an alias of a child of the
\* node reached so far, the Seek of a Run (the root's table just rebuilt)
\* returns the deepest node of that path and no residual, at every depth.
C1_SeekFollowsNamesAndAliases ==
    \A i \in Evs("Seek") :
        LET e == out[i]
            deepest == Follow(tree, e.from, e.input, 1)
        IN (last.op = "Cmd.Run" /\ UniqueSiblings(tree) /\ deepest # Nil)
               => (e.cmd = deepest /\ e.args = <<>>)

\* C2: every Seek returns a node of the tree and a residual that is a
\* suffix of its input; the tokens before the residual are exactly the
\* chain of children Resolve leads through from the receiver to the node
\* returned; Resolve finds no child of that node for the first residual
\* token; and if the first token is no name or alias of a child of the
\* receiver, or Resolve finds none for it, the receiver and the whole
\* input are returned.
C2_SeekTotalGreedy ==
    \A i \in Evs("Seek") :
        LET e == out[i]
            consumed == SubSeq(e.input, 1, Len(e.input) - Len(e.args))
        IN /\ e.cmd \in Cmds
           /\ IsSuffix(e.args, e.input)
           /\ Walk(tree, e.from, consumed, 1) = e.cmd
           /\ e.args # <<>> => Resolve(tree, e.cmd, e.args[1]) = Nil
           /\ (/\ e.input # <<>>
               /\ \/ Resolve(tree, e.from, e.input[1]) = Nil
                  \/ MatchingChildren(tree, e.from, e.input[1]) = {})
                  => (e.cmd = e.from /\ e.args = e.input)

\* C2 witness: a Seek from the root that followed a child and then
\* stopped at a token, which it left with the rest.
C2_Witness ==
    \E i \in Evs("Seek") :
        /\ out[i].from = Root
        /\ out[i].cmd # Root
        /\ out[i].args # <<>>

\* C3: in a dispatch, a usage error (fewer residual arguments than the
\* effective target's MinArgs) goes with no invocation of any action, and
\* an action is only invoked on a target given at least its MinArgs
\* arguments, which are the residual arguments of Seek; DoNotExit or not.
C3_MinArgsGate ==
    Dispatched =>
        /\ Errs("usage") # {} => Evs("Call") = {}
        /\ \A i \in Evs("Call") :
               /\ Len(out[i].args) >= tree[out[i].cmd].MinArgs
               /\ out[i].args = Resolved.args

\* C4: with COMP_LINE present a Run only emits completion candidates: no
\* action is invoked and no Seek for dispatch follows the Seek of the
\* completion; with or without a Completer, DoNotExit or not.
C4_CompletionOnly ==
    (last.op = "Cmd.Run" /\ COMP_LINE # <<>>) =>
        /\ Evs("Call") = {}
        /\ Cardinality(Evs("Seek")) <= 1

\* The strings s1..sk of a multicall entry.
RECURSIVE EntryStrings(_, _)
EntryStrings(v, i) ==
    IF i > Len(v) THEN <<>> ELSE <<v[i].str>> \o EntryStrings(v, i + 1)

\* A multicall entry [root, s1..sk], k >= 0.
WellFormedEntry(v) ==
    /\ Len(v) >= 1
    /\ v[1].kind = "cmd"
    /\ \A i \in 2..Len(v) : v[i].kind = "str"

\* C5: in multicall dispatch with the entry [root, s1..sk] and the real
\* arguments r1..rn, the sequence resolved against root is s1..sk
\* followed by r1..rn; with k = 0, r1..rn unchanged.
C5_MulticallArgs ==
    (/\ last.op = "Run"
     /\ ExeName \in DOMAIN ZCommands
     /\ WellFormedEntry(ZCommands[ExeName])
     /\ Evs("Seek") # {})
        => /\ Resolved.from = ZCommands[ExeName][1].cmd
           /\ Resolved.input = EntryStrings(ZCommands[ExeName], 2) \o last.args

\* C6: Run reports "unmapped multicall command" if and only if ExeName
\* has no entry in Commands; DoNotExit or not.
C6_UnmappedIffNoEntry ==
    last.op = "Run" =>
        (Errs("unmapped multicall command") # {} <=> ExeName \notin DOMAIN ZCommands)

\* C7: if the effective target or the invoking root has ReqConf and Conf
\* is nil, the dispatch produces the configuration error and invokes no
\* action.
C7_ReqConfGate ==
    (Dispatched /\ Conf = "nil") =>
        \A i \in Evs("Call") :
            /\ ~tree[out[i].cmd].ReqConf
            /\ ~tree[last.x].ReqConf

\* C8: a dispatch into a node with no Call and no Commands yields the
\* "not yet implemented" error, invokes no action and does not panic,
\* whatever the residual arguments.
C8_NoCallNoCommands ==
    (/\ Dispatched
     /\ tree[Resolved.cmd].Call = "nil"
     /\ tree[Resolved.cmd].Commands = <<>>)
        => /\ Errs("has not yet been implemented") # {}
           /\ Evs("Call") = {}
           /\ Evs("panic") = {}

\* C9: when the node resolved has no Call, an action is invoked only on
\* its first child, that child having a Call and its Caller being the
\* node resolved; if the first child has no Call, or there is no child, an
\* error is reported and neither an action nor a nil Call is invoked.
C9_DefaultChild ==
    (Dispatched /\ tree[Resolved.cmd].Call = "nil") =>
        LET cmd == Resolved.cmd
            kids == tree[cmd].Commands
        IN IF kids # <<>> /\ tree[kids[1]].Call # "nil"
           THEN \A i \in Evs("Call") :
                    out[i].cmd = kids[1] /\ tree[kids[1]].Caller = cmd
           ELSE /\ Evs("ExitError") # {}
                /\ Evs("Call") = {}
                /\ Evs("panic") = {}

\* C10: a dispatch signals failure exactly when a validation fails or the
\* action returns an error, success exactly when the action ran and
\* returned no error, and never both; DoNotExit or not.
C10_SingleOutcome ==
    Dispatched =>
        /\ ~(Evs("ExitError") # {} /\ Evs("Exit") # {})
        /\ Evs("Exit") # {} <=> (\E i \in Evs("Call") : out[i].what = "ok")

\* The node and the residual arguments that a Run of the root resolves for
\* dispatch when the process is given args, the tree being as it is now.
RunResolves(args) ==
    LET c == CmdRunBody(Ctx(tree, <<ExeName>> \o args), Root)
        seeks == {i \in DOMAIN c.out : c.out[i].ev = "Seek"}
    IN [cmd |-> c.out[Min(seeks)].cmd, args |-> c.out[Min(seeks)].args]

\* The last operation was a Run of the root given a shorthand first.
ShorthandRun ==
    /\ Dispatched
    /\ last.args # <<>>
    /\ last.args[1] \in DOMAIN ZAliases

\* What the shorthand of the last Run stands for, and the arguments after.
Expanded == ZAliases[last.args[1]] \o Tail(last.args)

\* C11 as stated: a Run given [a] ++ T, a a shorthand for R, resolves
\* the node and residual arguments that a Run given the literal R ++ T
\* resolves.
C11_ShorthandAsLiteralRun ==
    ShorthandRun =>
        /\ Resolved.cmd = RunResolves(Expanded).cmd
        /\ Resolved.args = RunResolves(Expanded).args

\* C11 amended: a Run given [a] ++ T leaves os.Args as the program name,
\* R and T, resolves exactly R ++ T (R not expanded again, T unexpanded),
\* and, provided the first token of R ++ T is not itself a shorthand,
\* resolves what a Run given the literal R ++ T resolves.
C11_ShorthandExpandedOnce ==
    ShorthandRun =>
        /\ last.osArgs = <<ExeName>> \o Expanded
        /\ Resolved.from = Root
        /\ Resolved.input = Expanded
        /\ (Expanded = <<>> \/ Expanded[1] \notin DOMAIN ZAliases)
               => /\ Resolved.cmd = RunResolves(Expanded).cmd
                  /\ Resolved.args = RunResolves(Expanded).args

\* C11 witness: a shorthand followed by an argument was expanded and a
\* child of the root resolved, the argument left over.
C11_Witness ==
    /\ ShorthandRun
    /\ Len(last.args) > 1
    /\ Resolved.cmd # Root
    /\ Resolved.args # <<>>

\* p is a literal prefix of n, character by character.
LiteralPrefix(p, n) ==
    /\ Len(p) <= Len(n)
    /\ \A i \in 1..Len(p) : n[i] = p[i]

\* The entries of list that are not in x's Hidden and begin with tok.
Candidates(t, x, list, tok) ==
    SelectSeq(list, LAMBDA n : /\ \A j \in DOMAIN t[x].Hidden : t[x].Hidden[j] # n
                               /\ LiteralPrefix(tok, n))

\* The names of x's children in order, unnamed children left out.
ChildNames(t, x) ==
    LET kids == SelectSeq(t[x].Commands, LAMBDA c : t[c].Name # <<>>)
    IN [i \in DOMAIN kids |-> t[kids[i]].Name]

HiddenChildren(t, x) ==
    {c \in Range(t[x].Commands) : t[c].Name \in Range(t[x].Hidden)}

\* The first child of x named as c is.
FirstNamedAs(t, x, c) ==
    LET cmds == t[x].Commands
    IN cmds[Min({i \in DOMAIN cmds : t[cmds[i]].Name = t[c].Name})]

C14_ExactNameOnly ==
    \A i \in Evs("Standard") :
        (/\ tree[out[i].cmd].Completer = "nil"
         /\ out[i].input # <<>>
         /\ out[i].input[1] \in Range(ChildNames(tree, out[i].cmd)))
            => out[i].args = <<out[i].input[1]>>

Reverse(seq) == [i \in DOMAIN seq |-> seq[Len(seq) + 1 - i]]

\* The tree with every alias list declared in the opposite order, and
\* with the children of x declared in the opposite order as well.
AliasesReversed(t) == [c \in Cmds |-> [t[c] EXCEPT !.Aliases = Reverse(@)]]

SiblingsReversed(t, x) ==
    [AliasesReversed(t) EXCEPT ![x].Commands = Reverse(@)]

\* No alias of c is the name or an alias of another child of x.
AliasesDistinct(t, x, c) ==
    \A al \in Range(t[c].Aliases) : MatchingChildren(t, x, al) = {c}

\* The alias cache of x is as cacheAliases builds it from the tree.
CacheRebuilt(t, x) == t[x]._aliases = cacheAliases(t, x)[x]._aliases

\* C15: for a child c of x whose aliases are no name or alias of a
\* sibling, once the cache of x is rebuilt, every alias of c leads a Seek
\* from x to c, and Resolve gives c for it as well with the alias lists
\* declared in the opposite order and with the siblings declared in the
\* opposite order.
C15_AliasOrderIndependent ==
    \A x \in Cmds : \A c \in Range(tree[x].Commands) :
        (AliasesDistinct(tree, x, c) /\ CacheRebuilt(tree, x)) =>
            \A al \in Range(tree[c].Aliases) :
                /\ Resolve(tree, x, al) = c
                /\ Resolve(cacheAliases(AliasesReversed(tree), x), x, al) = c
                /\ Resolve(cacheAliases(SiblingsReversed(tree, x), x), x, al) = c
                /\ \A i \in Evs("Seek") :
                       (out[i].from = x /\ out[i].input # <<>> /\ out[i].input[1] = al)
                           => Walk(tree, c, Tail(SubSeq(out[i].input, 1,
                                  Len(out[i].input) - Len(out[i].args))), 1) = out[i].cmd

\* C15 witness: a Run resolved the second alias in the list of the child
\* "a" of the root to that child.
C15_Witness ==
    /\ last.op = "Cmd.Run"
    /\ Len(tree[2].Aliases) = 2
    /\ AliasesDistinct(tree, Root, 2)
    /\ Resolved.input = <<tree[2].Aliases[2]>>
    /\ Resolved.cmd = 2
    /\ Resolved.args = <<>>

IsErrorString(str) == str # <<>> /\ str[1] = ErrorMark

\* C16: InferredUsage of a node returns an error string exactly when the
\* node has neither Call nor Commands, or has Params but no Call; so for a
\* node with Commands only it returns none.
C16_UsageErrorExactly ==
    \A i \in Evs("InferredUsage") :
        LET x == out[i].cmd
        IN out[i].what = "cmd" =>
               (IsErrorString(out[i].args) <=>
                    \/ tree[x].Call = "nil" /\ Len(tree[x].Commands) = 0
                    \/ tree[x].Call = "nil" /\ Len(tree[x].Params) > 0)

\* The fields of a node other than Commands.
OtherFields(node) ==
    <<node.Name, node.Aliases, node.Params, node.Hidden, node.Summary,
      node.Completer, node.Caller, node.Call, node.MinArgs, node.ReqConf, node._aliases>>

\* C17: a step that adds a node adds exactly one, as the last child of
\* the receiver, with the name and the aliases given, without Call,
\* Commands or Caller; it returns that node; every node there was, the
\* order of the receiver's children and the receiver's other fields stay
\* as they were; and the step is taken from any running state, whatever
\* the name.
C17_AddAppendsOnly ==
    [][Len(tree') # Len(tree) =>
          LET n == Len(tree')
              x == last'.x
          IN /\ last'.op = "Add"
             /\ n = Len(tree) + 1
             /\ tree'[n].Name = Head(last'.args)
             /\ tree'[n].Aliases = Tail(last'.args)
             /\ tree'[n].Call = "nil"
             /\ tree'[n].Commands = <<>>
             /\ tree'[n].Caller = Nil
             /\ tree'[x].Commands = Append(tree[x].Commands, n)
             /\ OtherFields(tree'[x]) = OtherFields(tree[x])
             /\ \A y \in DOMAIN tree : y # x => tree'[y] = tree[y]
             /\ out'[1].cmd = n
             /\ proc' = "running"]_vars

\* C17 witness: Add on the root, which had a child with its Caller set,
\* returned a second child with an alias, put after the first.
C17_Witness ==
    /\ last.op = "Add"
    /\ last.x = Root
    /\ last.args = <<sB, sA>>
    /\ tree[Root].Commands = <<2, 3>>
    /\ tree[2].Caller = Root
    /\ tree[3].Aliases = <<sA>>
    /\ out[1].cmd = 3

\* C18: ArgsFrom returns the fields of the line between white space,
\* and one empty item more exactly if the line ends in a white space
\* character, the tab as well as the space; nothing for the empty line.
C18_ArgsFromTrailingSpace ==
    \A i \in Evs("ArgsFrom") :
        LET line == out[i].input[1]
            fields == Fields(line, 1, <<>>)
        IN out[i].args =
               IF line = <<>> THEN <<>>
               ELSE IF IsSpace(line[Len(line)]) THEN Append(fields, <<>>)
               ELSE fields

\* Path: the names from the outermost caller down to x, prepending one name
\* per Caller hop. A chain without a cycle has fewer hops than the tree has
\* nodes, so a walk still going after Len(t) hops never ends: done = FALSE.
RECURSIVE PathLoop(_, _, _, _)
PathLoop(t, p, path, hops) ==
    IF p = Nil THEN [done |-> TRUE, path |-> path]
    ELSE IF hops = 0 THEN [done |-> FALSE, path |-> path]
    ELSE PathLoop(t, t[p].Caller, <<t[p].Name>> \o path, hops - 1)

\* The outermost name is shifted off before the result is returned.
Path(t, x) ==
    LET r == PathLoop(t, t[x].Caller, <<t[x].Name>>, Len(t))
    IN [done |-> r.done, path |-> Tail(r.path)]

\* C19: with DoNotExit set (and panics not let through by AllowPanic), a
\* Cmd.Run returns to its caller whatever its outcome: the process goes
\* on running after success, after each error, and after a panic that
\* TrapPanic caught.
C19_NoExitWhenSuppressed ==
    (last.op = "Cmd.Run" /\ DoNotExit /\ ~AllowPanic) => proc = "running"
\* C20: after any sequence of Seek calls and Run cycles, following Caller
\* from any node reaches a node without a caller in finitely many steps:
\* the caller relation has no cycle and Path terminates on every node.
C20_CallerChainAcyclic ==
    \A x \in DOMAIN tree : Path(tree, x).done
\* The nodes Resolve leads through from x along the tokens from position i
\* on, x itself left out.
RECURSIVE WalkNodes(_, _, _, _)
WalkNodes(t, x, toks, i) ==
    IF i > Len(toks) THEN <<>>
    ELSE LET next == Resolve(t, x, toks[i])
         IN IF next = Nil THEN <<>>
            ELSE <<next>> \o WalkNodes(t, next, toks, i + 1)

\* C21: after a Seek from the root that consumed tokens leading through
\* the children c1..ck, each ci has the caller c(i-1) (c0 the root) and
\* Path of ck is exactly the names of c1..ck, the root left out and empty
\* for the root itself, whatever callers earlier cycles left in the tree.
C21_SeekSetsCallersAndPath ==
    (last.op = "Seek" /\ last.x = Root) =>
        LET e == out[1]
            consumed == SubSeq(e.input, 1, Len(e.input) - Len(e.args))
            chain == WalkNodes(tree, Root, consumed, 1)
        IN /\ \A i \in DOMAIN chain :
                 tree[chain[i]].Caller = (IF i = 1 THEN Root ELSE chain[i - 1])
           /\ Path(tree, e.cmd) =
                 [done |-> TRUE, path |-> [i \in DOMAIN chain |-> tree[chain[i]].Name]]
\* The alias table of n maps every alias of every child of n to a child of
\* n that declares it.
TableCoversAliases(t, n) ==
    \A c \in Range(t[n].Commands) : \A a \in Range(t[c].Aliases) :
        /\ a \in DOMAIN t[n]._aliases
        /\ t[n]._aliases[a] \in Range(t[n].Commands)
        /\ a \in Range(t[t[n]._aliases[a]].Aliases)

Tables(t) == [n \in DOMAIN t |-> t[n]._aliases]

\* C22: a top-level run rebuilds the alias table of every node of the
\* tree, not only the root's, so that after it the table of every node n
\* maps every alias of every child of n to a child of n that declares it;
\* and no step other than a run changes any table.
C22_EveryTableRebuilt ==
    /\ [](last.op = "Cmd.Run" => \A n \in DOMAIN tree : TableCoversAliases(tree, n))
    /\ [][last'.op \notin {"Cmd.Run", "Run"} => Tables(tree') = Tables(tree)]_vars
\* The children of x named tok, by position in x.Commands.
NamedAt(t, x, tok) ==
    {i \in DOMAIN t[x].Commands : t[t[x].Commands[i]].Name = tok}

\* C23: an exact child name wins over an alias. If a token is the name of
\* a child of x, Resolve gives the first declared child of that name,
\* whether or not x's table holds the token as an alias of a sibling
\* declared before or after it; and a Seek given that token first goes
\* through that child.
C23_NameWinsOverAlias ==
    /\ \A x \in Cmds, tok \in Tokens :
           NamedAt(tree, x, tok) # {} =>
               Resolve(tree, x, tok) = tree[x].Commands[Min(NamedAt(tree, x, tok))]
    /\ \A i \in Evs("Seek") :
           LET e == out[i]
               consumed == SubSeq(e.input, 1, Len(e.input) - Len(e.args))
           IN (e.input # <<>> /\ NamedAt(tree, e.from, e.input[1]) # {}) =>
                  LET c1 == tree[e.from].Commands[Min(NamedAt(tree, e.from, e.input[1]))]
                  IN /\ consumed # <<>>
                     /\ tree[c1].Caller = e.from
                     /\ Walk(tree, c1, Tail(consumed), 1) = e.cmd

\* C23 witness: a Run given "b" resolved the child named "b" while the
\* root's table, just rebuilt, held "b" as an alias of the sibling
\* declared before it.
C23_Witness ==
    /\ last.op = "Cmd.Run"
    /\ Resolved.from = Root
    /\ Resolved.input = <<sB>>
    /\ sB \in DOMAIN tree[Root]._aliases
    /\ tree[Root]._aliases[sB] = 2
    /\ tree[Root].Commands = <<2, 3>>
    /\ Resolved.cmd = 3
\* The children of x that declare the alias al, by position in x.Commands.
AliasedAt(t, x, al) ==
    {i \in DOMAIN t[x].Commands : al \in Range(t[t[x].Commands[i]].Aliases)}

\* C24: when two children of x declare the same alias (no child having
\* it as its name), then with the table of x rebuilt Resolve gives the
\* child declared first, and a Seek of a Run given that alias first goes
\* through that child.
C24_SharedAliasFirstWins ==
    \A x \in Cmds, al \in AliasTokens :
        (/\ Cardinality(AliasedAt(tree, x, al)) >= 2
         /\ NamedAt(tree, x, al) = {}
         /\ CacheRebuilt(tree, x)) =>
            LET c1 == tree[x].Commands[Min(AliasedAt(tree, x, al))]
            IN /\ Resolve(tree, x, al) = c1
               /\ \A i \in Evs("Seek") :
                      (/\ last.op = "Cmd.Run"
                       /\ out[i].from = x
                       /\ out[i].input # <<>>
                       /\ out[i].input[1] = al) =>
                          Walk(tree, c1, Tail(SubSeq(out[i].input, 1,
                                 Len(out[i].input) - Len(out[i].args))), 1) = out[i].cmd
\* The tree with the children of x whose name is in x's Hidden list taken
\* out of x.Commands (which stays non-nil if it was).
WithoutHidden(t, x) ==
    [t EXCEPT ![x].Commands =
                  SelectSeq(@, LAMBDA c : t[c].Name \notin Range(t[x].Hidden)),
              ![x].EmptySlices =
                  IF IsNilSlice(t, x, "Commands") THEN @ ELSE @ \cup {"Commands"}]

\* C25: the usage line InferredUsage gives for a node and the titles
\* UsageCmdTitles lists for it are those of its children less the
\* children whose name is in its Hidden list.
C25_UsageExcludesHidden ==
    /\ \A i \in Evs("InferredUsage") :
           out[i].what = "cmd" =>
               out[i].args = InferredUsage(WithoutHidden(tree, out[i].cmd), VCmd(out[i].cmd))
    /\ \A i \in Evs("UsageCmdTitles") :
           out[i].args = UsageCmdTitles(WithoutHidden(tree, out[i].cmd), out[i].cmd)
\* The candidates of a completion that resolved the node cmd with the
\* arguments args left: the shorthands beginning with the one token of a
\* line of two tokens, then the standard candidates.
CompletionCandidates(lineargs, cmd, args) ==
    (IF Len(lineargs) = 2 THEN KeysWithPrefix(ZAliases, lineargs[2]) ELSE <<>>)
        \o Standard(tree, cmd, args)

\* C26: in a completion that resolved a node without Completer, the
\* candidates of a line of two tokens are the shorthands beginning with
\* the token together with the standard candidates; if that is one
\* candidate and it is a shorthand, its replacement is printed in its
\* place and nothing else happens in that cycle; for a line of any other
\* number of tokens the standard candidates alone are printed.
C26_CompletionShorthands ==
    (/\ last.op = "Cmd.Run"
     /\ COMP_LINE # <<>>
     /\ Evs("Seek") # {}
     /\ tree[Resolved.cmd].Completer = "nil") =>
        LET lineargs == ArgsFrom(COMP_LINE)
            cands == CompletionCandidates(lineargs, Resolved.cmd, Resolved.args)
            first == out[Min(Evs("Println"))]
        IN /\ Evs("Println") # {}
           /\ IF Len(lineargs) = 2 /\ Len(cands) = 1 /\ cands[1] \in DOMAIN ZAliases
              THEN /\ first.args = ZAliases[cands[1]]
                   /\ Cardinality(Evs("Println")) = 1
                   /\ Evs("Call") = {}
                   /\ Evs("panic") = {}
              ELSE first.args = cands
           /\ Len(lineargs) # 2 => first.args = Standard(tree, Resolved.cmd, Resolved.args)
\* The fields of a node that make the structure of the tree: all but the
\* Caller and the alias table.
Structure(node) ==
    <<node.Name, node.Aliases, node.Commands, node.Params, node.Hidden,
      node.Summary, node.Completer, node.Call, node.MinArgs, node.ReqConf,
      node.EmptySlices>>

\* The nodes a Seek with the log entry e passed in the tree t, the
\* receiver left out.
Passed(t, e) ==
    Range(WalkNodes(t, e.from, SubSeq(e.input, 1, Len(e.input) - Len(e.args)), 1))

\* The nodes whose Caller the operation logged in o may write, in the tree
\* t it left: the nodes its Seeks passed and, for a Run, the node found
\* and its first child where the node found has no Call.
MayWriteCaller(t, o, op) ==
    UNION {Passed(t, o[i]) : i \in {j \in DOMAIN o : o[j].ev = "Seek"}}
    \cup (IF op = "Seek" THEN {}
          ELSE UNION {{o[i].cmd} \cup
                      (IF t[o[i].cmd].Call = "nil" /\ t[o[i].cmd].Commands # <<>>
                       THEN {t[o[i].cmd].Commands[1]} ELSE {})
                          : i \in {j \in DOMAIN o : o[j].ev = "Seek"}})

\* C27: a Seek or a Run leaves the structure of the tree as it was: no
\* node is added or removed and no node's name, aliases, children, params,
\* hidden list, action or bounds change; the Caller changes only on nodes
\* of the matched path, the default child and the effective target.
C27_TreeStructureUnchanged ==
    [][last'.op \in {"Seek", "Cmd.Run"} =>
          /\ DOMAIN tree' = DOMAIN tree
          /\ \A n \in DOMAIN tree :
                 /\ Structure(tree'[n]) = Structure(tree[n])
                 /\ tree'[n].Caller # tree[n].Caller =>
                        n \in MayWriteCaller(tree', out', last'.op)]_vars

\* C27 witness: a Run that found the root, which has no Call, went to its
\* first child as the default: that child's Caller is set, the Caller of
\* its sibling and of its own child is not.
C27_Witness ==
    /\ last.op = "Cmd.Run"
    /\ Resolved.cmd = Root
    /\ tree[Root].Call = "nil"
    /\ \E i \in Evs("Call") : out[i].cmd = 2
    /\ tree[2].Caller = Root
    /\ tree[3].Caller = Nil
    /\ tree[4].Caller = Nil
====
